---- MODULE Spec2Model ----
(***************************************************************************)
(* The two Zephyr demo programs of the repository and the cycle barrier    *)
(* (sync_log_complete_cycle) they share.                                   *)
(*                                                                         *)
(*   simple_thread/src/main.c : threads thread1, thread2 and main, each    *)
(*                              looping  printk; barrier; k_sleep          *)
(*   thread_1/src/main.c      : main initialises three LEDs and creates    *)
(*                              led0, led1, led2, each looping             *)
(*                              pin action; printk; barrier; k_msleep      *)
(*                                                                         *)
(* Every C statement that touches shared state (the atomic counter, the    *)
(* mutex, the console, a pin) is one step; the steps of different threads  *)
(* interleave freely.  k_sleep suspends the caller until a later,          *)
(* unconstrained point: durations are kept, wall-clock time is not.        *)
(***************************************************************************)
EXTENDS Integers, Sequences, FiniteSets, Bags, TLC

\* Bounds of the model: the loop iterations (ticks) the workers may start,
\* all workers together, under Spec, SpecSequential, FairSpec and
\* SpecFailingSink.
MaxTicks == 5

MaxSequentialTicks == 7

MaxFairTicks == 3

MaxFailingSinkTicks == 6

Apps == {"simple_thread", "thread_1"}

Threads == {"main", "thread1", "thread2", "led0", "led1", "led2"}

Pins == {"led0", "led1", "led2"}

\* The threads that run the print/arrive/sleep loop in each program.
Workers(a) ==
  IF a = "simple_thread" THEN {"main", "thread1", "thread2"}
                         ELSE {"led0", "led1", "led2"}

\* The argument of the k_sleep / k_msleep call that ends a tick, in ms.
Period(a, w) ==
  IF a = "simple_thread"
    THEN CASE w = "thread1" -> 700
           [] w = "thread2" -> 1200
           [] OTHER         -> 2000
    ELSE CASE w = "led0" -> 500
           [] w = "led1" -> 200
           [] OTHER      -> 800

\* k_msleep(100) between the two halves of led2_thread's burst.
BurstGap == 100

\* The 3 of sync_log_complete_cycle's test: the threads of one cycle.
Participants == 3

\* A test that lets the count pass the threshold by one.
ReachedThresholdStrict(v) == v > Participants

\* The if of sync_log_complete_cycle: atomic_get(&sync_counter) >= 3.
ReachedThreshold(v) == v >= Participants

VARIABLES
  app,           \* which of the two programs runs
  pc,            \* pc[t]: the statement thread t executes next
  asleep,        \* asleep[t]: ms asked of the sleep t is suspended in, 0 if runnable
  ticks,         \* ticks[t]: loop iterations t has started
  sync_counter,  \* atomic_t sync_counter
  sync_mutex,    \* struct k_mutex sync_mutex: owner and lock_count
  out,           \* the console: the bag of the pieces printk has written
  round,         \* the bag of the pieces written since the last separator
  closed,        \* history: closed[t] = the value of round that t's separator
                 \* ended, from that printk until t's k_mutex_unlock
  open,          \* the thread whose text stands on the console's last line with
                 \* no newline after it yet, NoOwner at the start of a line
  lost,          \* the separators the console did not accept
  gpio,          \* gpio[p]: logical level of pin p
  state,         \* state[t]: the local `state` of led0_thread / led1_thread
  led_dev,       \* led_dev[p]: led0_dev .. led2_dev has been assigned
  boot,          \* main's next statement before its loop, an index of MainProgram
  budget,        \* the ticks the workers may still start
  calls,         \* history: calls[t] = sync_log_complete_cycle calls t has made
  slept,         \* history: slept[t] = end-of-tick sleeps t has begun
  erased,        \* history: erased[t] = the count t's atomic_set overwrote, from
                 \* that atomic_set until t has written its separator
  own            \* history: own[t] = the count t's atomic_inc left, from that
                 \* atomic_inc until t's test of the counter

console == <<out, round, closed, open, lost>>

vars == <<app, pc, asleep, ticks, sync_counter, sync_mutex, console, gpio,
          state, led_dev, boot, budget, calls, slept, erased, own>>

NoOwner == "none"

----------------------------------------------------------------------------
(* The console.  A printk call writes one piece: the thread, the function *)
(* that prints ("main" before its loop, "loop" in a worker's while (1),    *)
(* "sync_log_complete_cycle"), the text ("" for none) and the number of    *)
(* newline characters that end it.  The console keeps the pieces written,  *)
(* and apart those written since the last separator; the order of the      *)
(* pieces between two separators is not kept.                              *)

Piece(t, from, text, nl) == [by |-> t, from |-> from, text |-> text, nl |-> nl]

\* printk("\n") of sync_log_complete_cycle.
SeparatorPiece(t) == Piece(t, "sync_log_complete_cycle", "", 1)

IsSeparator(p) == p.from = "sync_log_complete_cycle"

\* A piece of text that ends in a newline completes one line of text (no
\* piece of either program holds text after a newline).
IsTextLine(p) == p.text # "" /\ p.nl > 0

\* A line of text written by a worker in its loop.
IsWorkerLine(p) == IsTextLine(p) /\ p.from = "loop"

RECURSIVE BagCount(_, _)
BagCount(b, S) ==
  IF S = {} THEN 0
  ELSE LET x == CHOOSE y \in S : TRUE IN CopiesIn(x, b) + BagCount(b, S \ {x})

\* Separators the barrier has written.
Separators(b) == BagCount(b, {p \in BagToSet(b) : IsSeparator(p)})

TextLines(b) == BagCount(b, {p \in BagToSet(b) : IsTextLine(p)})

WorkerLines(b) == BagCount(b, {p \in BagToSet(b) : IsWorkerLine(p)})

\* The threads with a line of text of their loop in b.
LineWriters(b) == {p.by : p \in {q \in BagToSet(b) : IsWorkerLine(q)}}

RECURSIVE SumOver(_, _)
SumOver(f, S) ==
  IF S = {} THEN 0
  ELSE LET x == CHOOSE y \in S : TRUE IN f[x] + SumOver(f, S \ {x})

\* Calls of sync_log_complete_cycle that have executed their atomic_inc.
Arrivals == SumOver(calls, Threads)

----------------------------------------------------------------------------
InitBudget(n) ==
  /\ budget = n
  /\ app \in Apps
  /\ pc = [t \in Threads |-> IF t = "main" THEN "boot" ELSE "unborn"]
  /\ asleep = [t \in Threads |-> 0]
  /\ ticks = [t \in Threads |-> 0]
  /\ sync_counter = 0
  /\ sync_mutex = [owner |-> NoOwner, lock_count |-> 0]
  /\ out = EmptyBag
  /\ round = EmptyBag
  /\ closed = [t \in Threads |-> EmptyBag]
  /\ open = NoOwner
  /\ lost = 0
  /\ gpio \in [Pins -> {0, 1}]
  /\ (app = "simple_thread" => gpio = [p \in Pins |-> 0])
  /\ state = [t \in Threads |-> FALSE]
  /\ led_dev = [p \in Pins |-> FALSE]
  /\ boot = 1
  /\ calls = [t \in Threads |-> 0]
  /\ slept = [t \in Threads |-> 0]
  /\ erased = [t \in Threads |-> 0]
  /\ own = [t \in Threads |-> 0]

Init == InitBudget(MaxTicks)

----------------------------------------------------------------------------
(* Helpers of the steps.                                                   *)

Runnable(t) == pc[t] \notin {"unborn", "done"} /\ asleep[t] = 0

At(t, loc) == Runnable(t) /\ pc[t] = loc

Goto(t, loc) == pc' = [pc EXCEPT ![t] = loc]

Written(p) ==
  /\ out' = out (+) SetToBag({p})
  /\ round' = IF IsSeparator(p) THEN EmptyBag ELSE round (+) SetToBag({p})
  /\ closed' = IF IsSeparator(p) THEN [closed EXCEPT ![p.by] = round] ELSE closed
  /\ open' = IF p.nl > 0 THEN NoOwner ELSE p.by
  /\ lost' = lost

Printk(t, from, text, nl) == Written(Piece(t, from, text, nl))

\* The first statement of a worker's while (1) body.
LoopHead(t) ==
  CASE t \in {"led0", "led1"} -> "toggle"
    [] t = "led2"             -> "on"
    [] OTHER                  -> "print"

\* The statements of sync_log_complete_cycle after its atomic_inc.
InsideLocs == {"test", "lock", "reset", "newline", "unlock"}

Inside(t) == pc[t] \in InsideLocs

----------------------------------------------------------------------------
(* sync_log_complete_cycle, one step per statement.                        *)

\* atomic_inc(&sync_counter);
AtomicInc(t) ==
  /\ At(t, "arrive")
  /\ sync_counter' = sync_counter + 1
  /\ calls' = [calls EXCEPT ![t] = @ + 1]
  /\ own' = [own EXCEPT ![t] = sync_counter + 1]
  /\ Goto(t, "test")
  /\ UNCHANGED <<app, asleep, ticks, sync_mutex, console, gpio, state,
                 led_dev, boot, budget, slept, erased>>

\* A test that passes beyond the threshold only: > 3 in place of >= 3.
AtomicGetTestsStrictly(t) ==
  /\ At(t, "test")
  /\ Goto(t, IF sync_counter > Participants THEN "lock" ELSE "sleep")
  /\ own' = [own EXCEPT ![t] = 0]
  /\ UNCHANGED <<app, asleep, ticks, sync_counter, sync_mutex, console, gpio,
                 state, led_dev, boot, budget, calls, slept, erased>>

\* if (atomic_get(&sync_counter) >= 3) { ... } else return
AtomicGet(t) ==
  /\ At(t, "test")
  /\ Goto(t, IF ReachedThreshold(sync_counter) THEN "lock" ELSE "sleep")
  /\ own' = [own EXCEPT ![t] = 0]
  /\ UNCHANGED <<app, asleep, ticks, sync_counter, sync_mutex, console, gpio,
                 state, led_dev, boot, budget, calls, slept, erased>>

\* A lock that never makes its caller wait.
MutexAvailableAlways(t) == TRUE

\* k_mutex_lock(&sync_mutex, K_FOREVER): waits while another thread owns it.
MutexAvailable(t) == sync_mutex.owner \in {NoOwner, t}

MutexLock(t) ==
  /\ At(t, "lock")
  /\ MutexAvailable(t)
  /\ sync_mutex' = [owner |-> t, lock_count |-> sync_mutex.lock_count + 1]
  /\ Goto(t, "reset")
  /\ UNCHANGED <<app, asleep, ticks, sync_counter, console, gpio, state,
                 led_dev, boot, budget, calls, slept, erased, own>>

\* The fire path without its reset of the counter.
AtomicSetOmitted(t) ==
  /\ At(t, "reset")
  /\ erased' = [erased EXCEPT ![t] = sync_counter]
  /\ Goto(t, "newline")
  /\ UNCHANGED <<app, asleep, ticks, sync_counter, sync_mutex, console, gpio,
                 state, led_dev, boot, budget, calls, slept, own>>

\* atomic_set(&sync_counter, 0);
AtomicSet(t) ==
  /\ At(t, "reset")
  /\ sync_counter' = 0
  /\ erased' = [erased EXCEPT ![t] = sync_counter]
  /\ Goto(t, "newline")
  /\ UNCHANGED <<app, asleep, ticks, sync_mutex, console, gpio, state,
                 led_dev, boot, budget, calls, slept, own>>

\* printk("\n");
PrintSeparator(t) ==
  /\ At(t, "newline")
  /\ Written(SeparatorPiece(t))
  /\ erased' = [erased EXCEPT ![t] = 0]
  /\ Goto(t, "unlock")
  /\ UNCHANGED <<app, asleep, ticks, sync_counter, sync_mutex, gpio, state,
                 led_dev, boot, budget, calls, slept, own>>

\* A fire path that returns when the console refuses the separator.
DropSeparatorAndReturn(t) ==
  /\ At(t, "newline")
  /\ lost' = lost + 1
  /\ erased' = [erased EXCEPT ![t] = 0]
  /\ Goto(t, "sleep")
  /\ UNCHANGED <<app, asleep, ticks, sync_counter, sync_mutex, out, round,
                 closed, open, gpio, state, led_dev, boot, budget, calls,
                 slept, own>>

\* printk("\n") on a console that does not accept the write: printk returns
\* nothing, the caller goes on.
DropSeparator(t) ==
  /\ At(t, "newline")
  /\ lost' = lost + 1
  /\ erased' = [erased EXCEPT ![t] = 0]
  /\ Goto(t, "unlock")
  /\ UNCHANGED <<app, asleep, ticks, sync_counter, sync_mutex, out, round,
                 closed, open, gpio, state, led_dev, boot, budget, calls,
                 slept, own>>

\* An unlock that leaves the mutex with its owner.
UnlockedNever(m, t) == m

\* k_mutex_unlock(&sync_mutex): a thread that is not the owner changes nothing.
Unlocked(m, t) ==
  IF m.owner # t THEN m
  ELSE IF m.lock_count > 1 THEN [m EXCEPT !.lock_count = @ - 1]
  ELSE [owner |-> NoOwner, lock_count |-> 0]

MutexUnlock(t) ==
  /\ At(t, "unlock")
  /\ sync_mutex' = Unlocked(sync_mutex, t)
  /\ closed' = [closed EXCEPT ![t] = EmptyBag]
  /\ Goto(t, "sleep")
  /\ UNCHANGED <<app, asleep, ticks, sync_counter, out, round, open, lost, gpio, state,
                 led_dev, boot, budget, calls, slept, erased, own>>

----------------------------------------------------------------------------
(* The end of a tick, in every worker.                                     *)

\* k_sleep(K_MSEC(period)) / k_msleep(period): suspend; the loop resumes at
\* its head.
SleepPeriod(t) ==
  /\ At(t, "sleep")
  /\ asleep' = [asleep EXCEPT ![t] = Period(app, t)]
  /\ slept' = [slept EXCEPT ![t] = @ + 1]
  /\ Goto(t, LoopHead(t))
  /\ UNCHANGED <<app, ticks, sync_counter, sync_mutex, console, gpio, state,
                 led_dev, boot, budget, calls, erased, own>>

\* The timeout of a sleep expires.
Wake(t) ==
  /\ asleep[t] > 0
  /\ asleep' = [asleep EXCEPT ![t] = 0]
  /\ UNCHANGED <<app, pc, ticks, sync_counter, sync_mutex, console, gpio,
                 state, led_dev, boot, budget, calls, slept, erased, own>>

----------------------------------------------------------------------------
(* main() up to its loop or its return.  One entry per statement: the      *)
(* source line, the call, its argument, and the entries that follow it     *)
(* (next; fail when init_led returns < 0).  Entry 0 stands for the         *)
(* while (1) loop and entry -1 for return 0, which touches no state and    *)
(* is taken together with the statement before it.                         *)

\* A main that goes on to its next statement whatever init_led returns.
StmtResultIgnored(line, op, arg, nl, next, fail) ==
  [line |-> line, op |-> op, arg |-> arg, nl |-> nl, next |-> next,
   fail |-> next]

Stmt(line, op, arg, nl, next, fail) ==
  [line |-> line, op |-> op, arg |-> arg, nl |-> nl, next |-> next,
   fail |-> fail]

\* simple_thread/src/main.c, main
SimpleMain ==
  << Stmt(59, "printk", "[MAIN] Starting Preemptive Thread Demo", 1, 2, 2),
     Stmt(60, "k_mutex_init", "", 0, 3, 3),
     Stmt(63, "k_thread_create", "thread1", 0, 4, 4),
     Stmt(68, "printk", "[MAIN] Thread 1 created (P:-1)", 1, 5, 5),
     Stmt(71, "k_thread_create", "thread2", 0, 6, 6),
     Stmt(76, "printk", "[MAIN] Thread 2 created (P:-2)", 1, 0, 0) >>

\* thread_1/src/main.c, main
LedMain ==
  << Stmt(132, "printk", "[MAIN] Starting LED thread demo", 1, 2, 2),
     Stmt(138, "init_led", "led0", 0, 3, 5),
     Stmt(139, "init_led", "led1", 0, 4, 5),
     Stmt(140, "init_led", "led2", 0, 6, 5),
     Stmt(141, "printk", "[MAIN] LED initialization failed", 1, -1, -1),
     Stmt(145, "k_mutex_init", "", 0, 7, 7),
     Stmt(147, "printk", "[LED0] Initialized on pin", 1, 8, 8),
     Stmt(148, "printk", "[LED1] Initialized on pin", 1, 9, 9),
     Stmt(149, "printk", "[LED2] Initialized on pin", 2, 10, 10),
     Stmt(151, "printk", "[T1] LED0 thread started (500ms toggle)", 1, 11, 11),
     Stmt(152, "k_thread_create", "led0", 0, 12, 12),
     Stmt(156, "printk", "[T2] LED1 thread started (200ms toggle)", 1, 13, 13),
     Stmt(157, "k_thread_create", "led1", 0, 14, 14),
     Stmt(161, "printk", "[T3] LED2 thread started (burst 2x then 800ms rest)",
          2, 15, 15),
     Stmt(162, "k_thread_create", "led2", 0, -1, -1) >>

MainProgram == IF app = "simple_thread" THEN SimpleMain ELSE LedMain

AtBoot(op) == At("main", "boot") /\ MainProgram[boot].op = op

\* Where main is once it goes on to entry n.
MainAt(n) ==
  CASE n = 0  -> LoopHead("main")
    [] n = -1 -> "done"
    [] OTHER  -> "boot"

Advance(n) ==
  /\ boot' = n
  /\ pc' = [pc EXCEPT !["main"] = MainAt(n)]

MainPrintk ==
  /\ AtBoot("printk")
  /\ Printk("main", "main", MainProgram[boot].arg, MainProgram[boot].nl)
  /\ Advance(MainProgram[boot].next)
  /\ UNCHANGED <<app, asleep, ticks, sync_counter, sync_mutex, gpio, state,
                 led_dev, budget, calls, slept, erased, own>>

\* k_mutex_init(&sync_mutex);
MainMutexInit ==
  /\ AtBoot("k_mutex_init")
  /\ sync_mutex' = [owner |-> NoOwner, lock_count |-> 0]
  /\ Advance(MainProgram[boot].next)
  /\ UNCHANGED <<app, asleep, ticks, sync_counter, console, gpio, state,
                 led_dev, budget, calls, slept, erased, own>>

\* k_thread_create(..., entry, ..., K_NO_WAIT): the thread is ready at once.
MainThreadCreate ==
  /\ AtBoot("k_thread_create")
  /\ boot' = MainProgram[boot].next
  /\ pc' = [pc EXCEPT ![MainProgram[boot].arg] = LoopHead(MainProgram[boot].arg),
                      !["main"] = MainAt(MainProgram[boot].next)]
  /\ UNCHANGED <<app, asleep, ticks, sync_counter, sync_mutex, console, gpio,
                 state, led_dev, budget, calls, slept, erased, own>>

\* init_led(&ledN_dev, &ledN_pin, &ledN_spec) < 0 || ...
\* ready: device_is_ready(led_spec->port); ret: gpio_pin_configure's result.
InitLed(ready, ret) ==
  /\ AtBoot("init_led")
  /\ LET p == MainProgram[boot].arg IN
       IF ~ready
         THEN /\ Printk("main", "main", "[INIT] Error: LED device not ready", 1)
              /\ boot' = MainProgram[boot].fail
              /\ UNCHANGED <<gpio, led_dev>>
       ELSE IF ret < 0
         THEN /\ Printk("main", "main", "[INIT] Error configuring pin", 1)
              /\ led_dev' = [led_dev EXCEPT ![p] = TRUE]
              /\ boot' = MainProgram[boot].fail
              /\ UNCHANGED gpio
       ELSE   /\ led_dev' = [led_dev EXCEPT ![p] = TRUE]
              /\ gpio' = [gpio EXCEPT ![p] = 0]
              /\ boot' = MainProgram[boot].next
              /\ UNCHANGED console
  /\ UNCHANGED <<app, pc, asleep, ticks, sync_counter, sync_mutex, state,
                 budget, calls, slept, erased, own>>

MainInitLed == \E ready \in BOOLEAN, ret \in {-1, 0} : InitLed(ready, ret)

----------------------------------------------------------------------------
(* The workers' actions.                                                   *)

StatusText(t) ==
  CASE t = "thread1" -> "[T1] Low-priority thread (P:-1) running..."
    [] t = "thread2" -> "[T2] High-priority thread (P:-2) working..."
    [] OTHER         -> "[MAIN] Monitoring system..."

\* simple_thread: printk("[..] ...\n") at the head of each loop.
PrintStatus(t) ==
  /\ app = "simple_thread"
  /\ At(t, "print")
  /\ budget > 0
  /\ budget' = budget - 1
  /\ ticks' = [ticks EXCEPT ![t] = @ + 1]
  /\ Printk(t, "loop", StatusText(t), 1)
  /\ Goto(t, "arrive")
  /\ UNCHANGED <<app, asleep, sync_counter, sync_mutex, gpio, state, led_dev,
                 boot, calls, slept, erased, own>>

\* led0_thread / led1_thread: gpio_pin_toggle(ledN_dev, ledN_pin);
PinToggle(t) ==
  /\ At(t, "toggle")
  /\ budget > 0
  /\ budget' = budget - 1
  /\ ticks' = [ticks EXCEPT ![t] = @ + 1]
  /\ gpio' = [gpio EXCEPT ![t] = 1 - @]
  /\ Goto(t, "get")
  /\ UNCHANGED <<app, asleep, sync_counter, sync_mutex, console, state,
                 led_dev, boot, calls, slept, erased, own>>

\* bool state = gpio_pin_get(ledN_dev, ledN_pin);
PinGet(t) ==
  /\ At(t, "get")
  /\ state' = [state EXCEPT ![t] = (gpio[t] # 0)]
  /\ Goto(t, "print")
  /\ UNCHANGED <<app, asleep, ticks, sync_counter, sync_mutex, console, gpio,
                 led_dev, boot, budget, calls, slept, erased, own>>

StateText(t) ==
  IF t = "led0"
    THEN (IF state[t] THEN "[T1] LED0 is now ON | [T1] sleep 500ms"
                      ELSE "[T1] LED0 is now OFF | [T1] sleep 500ms")
    ELSE (IF state[t] THEN "[T2] LED1 is now ON | [T2] sleep 200ms"
                      ELSE "[T2] LED1 is now OFF | [T2] sleep 200ms")

\* printk("[Tn] LEDn is now %s | [Tn] sleep ..ms\n", state ? "ON" : "OFF");
PrintState(t) ==
  /\ app = "thread_1"
  /\ At(t, "print")
  /\ Printk(t, "loop", StateText(t), 1)
  /\ Goto(t, "arrive")
  /\ UNCHANGED <<app, asleep, ticks, sync_counter, sync_mutex, gpio, state,
                 led_dev, boot, budget, calls, slept, erased, own>>

\* led2_thread: gpio_pin_set(led2_dev, led2_pin, 1);
BurstOn(t) ==
  /\ At(t, "on")
  /\ budget > 0
  /\ budget' = budget - 1
  /\ ticks' = [ticks EXCEPT ![t] = @ + 1]
  /\ gpio' = [gpio EXCEPT ![t] = 1]
  /\ Goto(t, "print_on")
  /\ UNCHANGED <<app, asleep, sync_counter, sync_mutex, console, state,
                 led_dev, boot, calls, slept, erased, own>>

\* printk("[T3] Blink 1: LED2 ON | ");
PrintOn(t) ==
  /\ At(t, "print_on")
  /\ Printk(t, "loop", "[T3] Blink 1: LED2 ON | ", 0)
  /\ Goto(t, "nap")
  /\ UNCHANGED <<app, asleep, ticks, sync_counter, sync_mutex, gpio, state,
                 led_dev, boot, budget, calls, slept, erased, own>>

\* The burst's gap slept for the whole period of the tick.
BurstNapWholePeriod(t) ==
  /\ At(t, "nap")
  /\ asleep' = [asleep EXCEPT ![t] = Period(app, t)]
  /\ Goto(t, "off")
  /\ UNCHANGED <<app, ticks, sync_counter, sync_mutex, console, gpio, state,
                 led_dev, boot, budget, calls, slept, erased, own>>

\* k_msleep(100);
BurstNap(t) ==
  /\ At(t, "nap")
  /\ asleep' = [asleep EXCEPT ![t] = BurstGap]
  /\ Goto(t, "off")
  /\ UNCHANGED <<app, ticks, sync_counter, sync_mutex, console, gpio, state,
                 led_dev, boot, budget, calls, slept, erased, own>>

\* A burst that leaves the pin on.
BurstOffSkipped(t) ==
  /\ At(t, "off")
  /\ Goto(t, "print_off")
  /\ UNCHANGED <<app, asleep, ticks, sync_counter, sync_mutex, console, gpio,
                 state, led_dev, boot, budget, calls, slept, erased, own>>

\* gpio_pin_set(led2_dev, led2_pin, 0);
BurstOff(t) ==
  /\ At(t, "off")
  /\ gpio' = [gpio EXCEPT ![t] = 0]
  /\ Goto(t, "print_off")
  /\ UNCHANGED <<app, asleep, ticks, sync_counter, sync_mutex, console,
                 state, led_dev, boot, budget, calls, slept, erased, own>>

\* led2_thread without its call of sync_log_complete_cycle.
PrintOffNoArrive(t) ==
  /\ At(t, "print_off")
  /\ Printk(t, "loop", "[T3] Blink 2: LED2 OFF | [T3] sleep 800ms", 1)
  /\ Goto(t, "sleep")
  /\ UNCHANGED <<app, asleep, ticks, sync_counter, sync_mutex, gpio, state,
                 led_dev, boot, budget, calls, slept, erased, own>>

\* printk("[T3] Blink 2: LED2 OFF | [T3] sleep 800ms\n");
PrintOff(t) ==
  /\ At(t, "print_off")
  /\ Printk(t, "loop", "[T3] Blink 2: LED2 OFF | [T3] sleep 800ms", 1)
  /\ Goto(t, "arrive")
  /\ UNCHANGED <<app, asleep, ticks, sync_counter, sync_mutex, gpio, state,
                 led_dev, boot, budget, calls, slept, erased, own>>

----------------------------------------------------------------------------
(* The programs.                                                           *)

Startup ==
  \/ MainPrintk
  \/ MainMutexInit
  \/ MainThreadCreate
  \/ MainInitLed

Action(t) ==
  \/ PrintStatus(t)
  \/ PinToggle(t)
  \/ PinGet(t)
  \/ PrintState(t)
  \/ BurstOn(t)
  \/ PrintOn(t)
  \/ BurstNap(t)
  \/ BurstOff(t)
  \/ PrintOff(t)

Fire(t) ==
  \/ MutexLock(t)
  \/ AtomicSet(t)
  \/ PrintSeparator(t)
  \/ MutexUnlock(t)

\* Everything thread t does but enter sync_log_complete_cycle.
Rest(t) ==
  \/ Action(t)
  \/ AtomicGet(t)
  \/ Fire(t)
  \/ SleepPeriod(t)
  \/ Wake(t)

Step(t) == AtomicInc(t) \/ Rest(t)

Next == Startup \/ \E t \in Threads : Step(t)

Spec == Init /\ [][Next]_vars

\* The same program when no call of sync_log_complete_cycle starts while
\* another thread is inside one.
NoOtherInside(t) == \A u \in Threads \ {t} : ~Inside(u)

SequentialInc(t) == NoOtherInside(t) /\ AtomicInc(t)

NextSequential == Startup \/ \E t \in Threads : SequentialInc(t) \/ Rest(t)

SpecSequential == InitBudget(MaxSequentialTicks) /\ [][NextSequential]_vars

\* The sequential program on a console that may refuse a separator.
NextFailingSink == NextSequential \/ \E t \in Threads : DropSeparator(t)

SpecFailingSink == InitBudget(MaxFailingSinkTicks) /\ [][NextFailingSink]_vars

\* The scheduler runs every thread that can run, and k_mutex_unlock passes
\* the mutex to a thread that waits for it.
FairSpec ==
  /\ InitBudget(MaxFairTicks)
  /\ [][Next]_vars
  /\ \A t \in Threads : WF_vars(Step(t)) /\ SF_vars(MutexLock(t))

----------------------------------------------------------------------------
(* What the claims speak of.                                               *)

NoCallInProgress == \A t \in Threads : ~Inside(t)

\* Thread t has written its separator and still holds the mutex.
JustEmitted(t) == pc[t] = "unlock"

----------------------------------------------------------------------------
(* C1: once every call of sync_log_complete_cycle has returned, T workers  *)
(* having called it M times each, exactly floor(T*M / 3) separators have   *)
(* been written.                                                           *)
C1_ExactSeparatorCount ==
  \A M \in 1..MaxTicks :
    (NoCallInProgress /\ \A w \in Workers(app) : calls[w] = M)
      => Separators(out) = (Cardinality(Workers(app)) * M) \div Participants

(* C2: at every moment the separators written are at most                  *)
(* floor(lines of text written / 3).                                       *)
C2_SeparatorsWithinLines ==
  Separators(out) <= TextLines(out) \div Participants

(* C3: between a separator and the separator before it the workers wrote   *)
(* at least 3 lines.                                                       *)
C3_LinesBetweenSeparators ==
  \A t \in Threads :
    (JustEmitted(t) /\ Separators(out) >= 2)
      => WorkerLines(closed[t]) >= Participants

(* C4: a separator is written only when at least 3 calls incremented the   *)
(* counter since the program started or since the counter was last reset.  *)
C4_FireNeedsParticipants ==
  \A t \in Threads : pc[t] = "newline" => erased[t] >= Participants

(* C5: whenever a call of sync_log_complete_cycle has returned, the        *)
(* counter is 0, 1 or 2.                                                   *)
C5_CountInRangeAtReturn ==
  \A t \in Threads :
    pc[t] = "sleep" => (0 <= sync_counter /\ sync_counter < Participants)

(* C5, amended: whenever no call of sync_log_complete_cycle is in          *)
(* progress, the counter is 0, 1 or 2.                                     *)
C5_CountInRangeWhenQuiescent ==
  NoCallInProgress => (0 <= sync_counter /\ sync_counter < Participants)

\* A call has fired and returned, later calls have returned too, and no call
\* is in progress.
C5_Witness ==
  /\ NoCallInProgress
  /\ Separators(out) >= 1
  /\ sync_counter = 1
  /\ \E t \in Threads : pc[t] = "sleep"

(* C6: when the calls of sync_log_complete_cycle do not overlap, a call    *)
(* takes the counter from c to c+1 if c+1 < 3 and otherwise to 0, writing  *)
(* one separator; after K calls floor(K/3) separators are written, each    *)
(* in the 3rd, 6th, ... call, the counter is K mod 3, and after 3 calls    *)
(* the counter is 0 and the mutex is free as at the start.                 *)
C6_SequentialCycle ==
  /\ NoCallInProgress =>
       /\ sync_counter = Arrivals % Participants
       /\ Separators(out) = Arrivals \div Participants
       /\ sync_mutex = [owner |-> NoOwner, lock_count |-> 0]
  /\ \A t \in Threads :
       /\ pc[t] = "test" =>
            /\ sync_counter = ((Arrivals - 1) % Participants) + 1
            /\ Separators(out) = (Arrivals - 1) \div Participants
       /\ pc[t] \in {"lock", "reset"} =>
            /\ Arrivals % Participants = 0
            /\ sync_counter = Participants
            /\ Separators(out) = (Arrivals \div Participants) - 1
       /\ pc[t] = "newline" =>
            /\ sync_counter = 0
            /\ Separators(out) = (Arrivals \div Participants) - 1
       /\ pc[t] = "unlock" =>
            /\ sync_counter = 0
            /\ Separators(out) = Arrivals \div Participants

\* Seven calls made one after the other: two separators, the counter at 1.
C6_Witness ==
  /\ NoCallInProgress
  /\ Arrivals = 2 * Participants + 1
  /\ Separators(out) = 2
  /\ sync_counter = 1

(* C7: a thread that holds the mutex resets the counter and writes a       *)
(* separator only if the counter is still >= 3 at that moment, so fewer    *)
(* than 6 calls racing on the threshold write one separator, never two.    *)
C7_RecheckUnderLock ==
  /\ \A t \in Threads : pc[t] = "reset" => ReachedThreshold(sync_counter)
  /\ Arrivals < 2 * Participants => Separators(out) <= 1

\* A thread inside sync_log_complete_cycle is not suspended, and one that
\* waits for the mutex waits for an owner that is about to reset, print or
\* unlock.
C8_WaitsOnlyForOwner ==
  \A t \in Threads :
    /\ Inside(t) => asleep[t] = 0
    /\ (pc[t] = "lock" /\ ~MutexAvailable(t)) =>
         /\ pc[sync_mutex.owner] \in {"reset", "newline", "unlock"}
         /\ asleep[sync_mutex.owner] = 0

(* C8: no thread waits in sync_log_complete_cycle for anything but the     *)
(* mutex, the owner of the mutex is then about to reset, print or unlock,  *)
(* and under fair scheduling every call returns.                           *)
C8_EveryCallReturns ==
  /\ []C8_WaitsOnlyForOwner
  /\ \A t \in Threads : Inside(t) ~> ~Inside(t)

\* A thread waits for the mutex that another thread owns.
C8_Witness == \E t \in Threads : pc[t] = "lock" /\ ~MutexAvailable(t)

(* C9: in simple_thread, when a separator is written each of thread1,      *)
(* thread2 and main has written a status line since the start or since     *)
(* the separator before.                                                   *)
C9_EveryThreadInRound ==
  app = "simple_thread" =>
    \A t \in Threads :
      JustEmitted(t) => LineWriters(closed[t]) = Workers(app)

\* The printk calls of one tick of t.
PiecesPerTick(t) == IF t = "led2" THEN 2 ELSE 1

\* The pieces t has printed in its loop.
LoopPieces(t) ==
  BagCount(out, {p \in BagToSet(out) : p.by = t /\ p.from = "loop"})

\* The statements of t's action after its first.
ActionLocs(t) ==
  {"get", "print", "print_on", "nap", "off", "print_off"} \ {LoopHead(t)}

(* C10: every worker of both programs runs its tick in order: the action   *)
(* with all its printk calls, one call of sync_log_complete_cycle, the     *)
(* sleep of its period; led2 prints two pieces in a tick and calls once.   *)
C10_TickOrder ==
  \A t \in Workers(app) :
    /\ pc[t] = LoopHead(t) =>
         /\ calls[t] = ticks[t] /\ slept[t] = ticks[t]
         /\ LoopPieces(t) = PiecesPerTick(t) * ticks[t]
         /\ asleep[t] = IF slept[t] = 0 THEN 0 ELSE asleep[t]
         /\ asleep[t] \in {0, Period(app, t)}
    /\ pc[t] \in ActionLocs(t) =>
         /\ calls[t] = ticks[t] - 1 /\ slept[t] = ticks[t] - 1
         /\ LoopPieces(t) < PiecesPerTick(t) * ticks[t]
         /\ asleep[t] \in (IF pc[t] = "off" THEN {0, BurstGap} ELSE {0})
    /\ pc[t] = "arrive" =>
         /\ calls[t] = ticks[t] - 1 /\ slept[t] = ticks[t] - 1
         /\ LoopPieces(t) = PiecesPerTick(t) * ticks[t]
         /\ asleep[t] = 0
    /\ (Inside(t) \/ pc[t] = "sleep") =>
         /\ calls[t] = ticks[t] /\ slept[t] = ticks[t] - 1
         /\ LoopPieces(t) = PiecesPerTick(t) * ticks[t]
         /\ asleep[t] = 0

\* led2 has returned from the call of its second tick, four pieces printed.
C10_Witness ==
  /\ app = "thread_1"
  /\ pc["led2"] = "sleep"
  /\ ticks["led2"] = 2
  /\ calls["led2"] = 2
  /\ LoopPieces("led2") = 4

\* The pieces the step writes to the console.
NewPieces == {p \in BagToSet(out') : CopiesIn(p, out') > CopiesIn(p, out)}

(* C11: every line of the console that ends in a newline holds the text of *)
(* one thread: no thread writes text or a separator onto a line on which   *)
(* another thread's text stands with no newline after it yet.              *)
C11_WholeLines ==
  [][\A p \in NewPieces :
       open = NoOwner \/ (open = p.by /\ ~IsSeparator(p))]_vars

(* C12: in both programs a worker is suspended in a sleep only in the      *)
(* sleep of its period that ends a tick: no worker sleeps between the      *)
(* first statement of its action and its return from                       *)
(* sync_log_complete_cycle.                                                *)
C12_SleepsOnlyAfterArrive ==
  \A t \in Workers(app) :
    asleep[t] > 0 => (pc[t] = LoopHead(t) /\ asleep[t] = Period(app, t))

(* C12, amended: a worker is suspended in a sleep only in the sleep of its *)
(* period that ends a tick or, led2, in the 100 ms sleep between the two   *)
(* halves of its burst; no worker sleeps inside sync_log_complete_cycle.   *)
C12_SleepsOnlyInTickOrBurst ==
  \A t \in Workers(app) :
    /\ asleep[t] > 0 =>
         \/ pc[t] = LoopHead(t) /\ asleep[t] = Period(app, t)
         \/ t = "led2" /\ pc[t] = "off" /\ asleep[t] = BurstGap
    /\ (Inside(t) \/ pc[t] \in {"arrive", "sleep"}) => asleep[t] = 0

\* led2 sleeps in the middle of its burst, the pin on and half a line
\* printed.
C12_Witness ==
  /\ asleep["led2"] = BurstGap
  /\ pc["led2"] = "off"
  /\ gpio["led2"] = 1
  /\ open = "led2"

\* The lines init_led prints when it fails.
InitErrors ==
  {"[INIT] Error: LED device not ready", "[INIT] Error configuring pin"}

\* The pieces of b whose text is in S.
TextCount(b, S) == BagCount(b, {p \in BagToSet(b) : p.text \in S})

\* An init_led call of thread_1's main has failed.
InitFailed == app = "thread_1" /\ TextCount(out, InitErrors) > 0

\* The pins in the order main initialises them.
PinOrder == <<"led0", "led1", "led2">>

\* After a failed init_led: one [INIT] line, no thread created, no
\* separator, and main prints its own line as it returns.
C13_AfterFailure ==
  InitFailed =>
    /\ TextCount(out, InitErrors) = 1
    /\ \A w \in Workers(app) : pc[w] = "unborn" /\ ticks[w] = 0
    /\ Separators(out) = 0
    /\ sync_counter = 0
    /\ pc["main"] \in {"boot", "done"}
    /\ pc["main"] = "boot" => MainProgram[boot].line = 141
    /\ TextCount(out, {"[MAIN] LED initialization failed"})
         = (IF pc["main"] = "done" THEN 1 ELSE 0)

\* The init_led call that fails leaves the pins after its own untouched, and
\* no pin is touched afterwards.
C13_LaterPinsUntouched ==
  /\ InitFailed => (led_dev' = led_dev /\ gpio' = gpio)
  /\ \A k \in 1..3 :
       (AtBoot("init_led") /\ MainProgram[boot].arg = PinOrder[k]
          /\ InitFailed')
         => \A j \in (k + 1)..3 :
              /\ ~led_dev'[PinOrder[j]]
              /\ gpio'[PinOrder[j]] = gpio[PinOrder[j]]

(* C13: in thread_1, when init_led fails for led0, led1 or led2 (device    *)
(* not ready, or gpio_pin_configure fails), main prints one [INIT] error   *)
(* line and one "[MAIN] LED initialization failed" line and returns: no    *)
(* thread is created, no pin after the failing one is initialised and no   *)
(* separator is ever written.                                              *)
C13_InitFailureIsFatal ==
  []C13_AfterFailure /\ [][C13_LaterPinsUntouched]_vars

\* main has returned after init_led failed for led1 or led2.
C13_Witness ==
  /\ InitFailed
  /\ pc["main"] = "done"
  /\ led_dev["led0"]
  /\ ~led_dev["led2"]
  /\ TextCount(out, {"[MAIN] LED initialization failed"}) = 1

(* C14: a thread takes the fire path (locks, resets, writes a separator)   *)
(* only if its own atomic_inc left the counter at 3 or more; a call whose  *)
(* own increment left less returns with no lock taken, no separator        *)
(* written and no reset, having changed the counter by +1 and nothing      *)
(* else.                                                                   *)
C14_FireOnOwnIncrement ==
  [][\A t \in Threads :
       /\ (pc[t] = "arrive" /\ pc'[t] = "test") =>
            /\ sync_counter' = sync_counter + 1
            /\ sync_mutex' = sync_mutex /\ out' = out
       /\ (pc[t] = "test" /\ pc'[t] # "test") =>
            /\ pc'[t] = (IF ReachedThreshold(own[t]) THEN "lock" ELSE "sleep")
            /\ sync_counter' = sync_counter
            /\ sync_mutex' = sync_mutex /\ out' = out]_vars

\* The threads that have incremented the counter and will test it, or have
\* found it at the threshold and will reset it.
Pending == {t \in Threads : pc[t] \in {"test", "lock", "reset"}}

(* C15: with W = 3 workers on a barrier of N = 3 the counter never exceeds *)
(* N + (W - 1) = 5: it is at most N - 1 plus one for every worker that     *)
(* has incremented it and has still to test or to reset it.                *)
C15_CounterBounded ==
  /\ 0 <= sync_counter
  /\ sync_counter <= (Participants - 1) + Cardinality(Pending)
  /\ sync_counter <= Participants + (Cardinality(Workers(app)) - 1)

\* The counter at N + (W - 1): every worker is between its atomic_inc and
\* its test.
C15_Witness ==
  /\ sync_counter = Participants + (Cardinality(Workers(app)) - 1)
  /\ \A w \in Workers(app) : pc[w] = "test"

\* The threads between k_mutex_lock and the return of k_mutex_unlock.
Holders == {t \in Threads : pc[t] \in {"reset", "newline", "unlock"}}

\* One thread at most holds the mutex, once, and it is not suspended.
C16_OneHolder ==
  /\ Cardinality(Holders) <= 1
  /\ \A t \in Threads : t \in Holders <=> sync_mutex.owner = t
  /\ sync_mutex.lock_count = Cardinality(Holders)
  /\ \A t \in Holders : asleep[t] = 0 /\ pc[t] \notin ActionLocs(t)

\* The holder goes from its reset to its separator to its unlock and to
\* nothing else; while it is between the two, no step of another thread
\* resets the counter or writes a separator.
C16_HeldAcross ==
  \A t \in Holders :
    /\ pc'[t] # pc[t] =>
         <<pc[t], pc'[t]>> \in {<<"reset", "newline">>,
                                 <<"newline", "unlock">>,
                                 <<"unlock", "sleep">>}
    /\ (pc[t] = "reset" /\ pc'[t] = "reset") =>
         (sync_counter' >= sync_counter
            /\ Separators(out') = Separators(out))
    /\ (pc[t] = "newline" /\ pc'[t] = "newline") =>
         (sync_counter' >= sync_counter
            /\ Separators(out') = Separators(out))
    /\ (pc[t] = "newline" /\ pc'[t] = "unlock") =>
         Separators(out') = Separators(out) + 1

(* C16: at most one thread at a time is between k_mutex_lock and           *)
(* k_mutex_unlock, the mutex is held across one atomic_set and one         *)
(* printk("\n") only, between a thread's reset and its separator no other  *)
(* thread resets the counter or writes a separator, and no thread runs     *)
(* its action or sleeps while it holds the mutex.                          *)
C16_LockHeldForOneFire ==
  []C16_OneHolder /\ [][C16_HeldAcross]_vars

\* A thread holds the mutex between its reset and its separator while
\* another waits for the mutex and a third has incremented the counter.
C16_Witness ==
  \E t, u \in Threads :
    /\ pc[t] = "newline" /\ sync_mutex.owner = t
    /\ pc[u] = "lock"
    /\ sync_counter = 1

(* C17: every fire sets the counter to exactly 0, and what it erases is a  *)
(* count that has reached 3: the round and the arrivals counted beyond     *)
(* it.  Increments made after a reset are not erased before they have      *)
(* reached 3 in their turn: they count toward the next round.              *)
C17_ResetErasesFullRound ==
  [][\A t \in Threads :
       (pc[t] = "reset" /\ pc'[t] = "newline") =>
         (sync_counter' = 0 /\ ReachedThreshold(sync_counter))]_vars

(* C18: under fair scheduling, whenever the counter is 3 or more the       *)
(* counter is eventually reset and a separator is eventually written       *)
(* after that moment: no separator that is due stays unwritten forever.    *)
C18_ThresholdLeadsToSeparator ==
  /\ ReachedThreshold(sync_counter) ~> (sync_counter = 0)
  /\ \A n \in 0..MaxFairTicks :
       (ReachedThreshold(sync_counter) /\ Separators(out) = n)
         ~> (Separators(out) > n)

\* The third call has found the counter at 3, reset it and written the
\* first separator.
C18_Witness ==
  \E t \in Threads :
    /\ pc[t] = "unlock"
    /\ Arrivals = Participants
    /\ sync_counter = 0
    /\ Separators(out) = 1

\* The fires made: the separators written and those the console refused.
FiresAttempted == Separators(out) + lost

(* C19: a separator the console refuses changes nothing of the barrier:    *)
(* the fire path has reset the counter to 0 and releases the mutex all     *)
(* the same.  With calls made one after the other on such a console, K     *)
(* calls leave the counter at K mod 3 with floor(K/3) fires attempted, so  *)
(* 6 calls leave 0 with two fires; no call waits for the mutex and no      *)
(* call is counted twice.                                                  *)
C19_FailingSinkKeepsBarrier ==
  /\ NoCallInProgress =>
       /\ sync_counter = Arrivals % Participants
       /\ FiresAttempted = Arrivals \div Participants
       /\ sync_mutex = [owner |-> NoOwner, lock_count |-> 0]
  /\ (NoCallInProgress /\ Arrivals = 2 * Participants) =>
       (sync_counter = 0 /\ FiresAttempted = 2)
  /\ \A t \in Threads :
       /\ pc[t] = "lock" => MutexAvailable(t)
       /\ pc[t] = "unlock" =>
            /\ sync_counter = 0
            /\ sync_mutex = [owner |-> t, lock_count |-> 1]
            /\ FiresAttempted = Arrivals \div Participants

\* Six calls made one after the other, the console having refused one of
\* the two separators.
C19_Witness ==
  /\ NoCallInProgress
  /\ Arrivals = 2 * Participants
  /\ lost = 1
  /\ Separators(out) = 1
  /\ sync_counter = 0

\* thread_1's main has got through its three init_led calls.
InitSucceeded ==
  /\ app = "thread_1"
  /\ ~InitFailed
  /\ pc["main"] = "boot" => MainProgram[boot].line >= 145

\* The statements of led2_thread at which its pin is on.
BurstLit == {"print_on", "nap", "off"}

\* The level of every pin follows from the progress of its own thread:
\* 0 before any tick, led0 and led1 toggled once per tick, led2 on only
\* inside its burst.
C20_PinLevels ==
  InitSucceeded =>
    /\ (\A w \in Workers(app) : ticks[w] = 0) => \A p \in Pins : gpio[p] = 0
    /\ \A t \in {"led0", "led1"} : gpio[t] = ticks[t] % 2
    /\ gpio["led2"] = (IF pc["led2"] \in BurstLit THEN 1 ELSE 0)
    /\ (pc["led2"] = "arrive" \/ Inside("led2")) => gpio["led2"] = 0
    /\ asleep["led2"] = Period(app, "led2") => gpio["led2"] = 0

\* A step changes the level of a pin only if it is a step of that pin's
\* thread, and led0 and led1 change level in the step that starts a tick
\* and in no other.
C20_OwnWorkerWrites ==
  InitSucceeded =>
    /\ \A p \in Pins :
         gpio'[p] # gpio[p] =>
           /\ pc'[p] # pc[p]
           /\ \A q \in Pins \ {p} : gpio'[q] = gpio[q] /\ pc'[q] = pc[q]
    /\ \A t \in {"led0", "led1"} :
         (gpio'[t] # gpio[t]) <=> (ticks'[t] = ticks[t] + 1)

(* C20: in thread_1 every pin is at level 0 once init_led has succeeded    *)
(* and until a worker runs; afterwards each pin is written by its own      *)
(* thread only, led0 and led1 change level exactly once per tick, and      *)
(* led2 is at 0 whenever led2_thread calls sync_log_complete_cycle or is   *)
(* in its 800 ms sleep.                                                    *)
C20_PinsFollowOwnWorker ==
  []C20_PinLevels /\ [][C20_OwnWorkerWrites]_vars

\* led0 is on after one tick, led1 off again after two, led2 off in its
\* call after one burst.
C20_Witness ==
  /\ app = "thread_1"
  /\ ticks["led0"] = 1 /\ gpio["led0"] = 1
  /\ ticks["led1"] = 2 /\ gpio["led1"] = 0
  /\ ticks["led2"] = 1 /\ Inside("led2") /\ gpio["led2"] = 0

====
